---- MODULE Spec2Model ----
(***************************************************************************)
(* Model of the image import service (src/main.py): POST /import,          *)
(* GET /images and GET /image/{id} over the storage directory, the staging *)
(* directory "downloads" and the images table.                             *)
(*                                                                         *)
(* File names are sequences of one-character strings, so that endswith,    *)
(* startswith, lower and the extension lookup of mimetypes are computed.   *)
(* A MIME type is the pair <<type, subtype>>.  uuid4 is a fresh counter.   *)
(* imported_at is not modelled.  A directory listing returns names in one  *)
(* fixed order.  The calls that can raise (connect, getsize, move, insert  *)
(* and commit) fail nondeterministically, at most MaxFaults times; a       *)
(* failed move leaves both files as they were, a failed insert or commit   *)
(* leaves no row.                                                          *)
(***************************************************************************)
EXTENDS Integers, Sequences, FiniteSets, TLC

\* ---------------------------------------------------------------- bounds
MaxImports == 3     \* import requests started in one behaviour
MaxFaults == 2      \* injected failures (connect, getsize, move, insert)
MaxQueries == 2     \* list / get-by-id requests in one behaviour

\* handler slots: the two requests that may overlap
Workers == {1, 2}

\* ------------------------------------------------------------ file names
aPng == <<"a", ".", "p", "n", "g">>
bTxt == <<"b", ".", "t", "x", "t">>
cPng == <<"c", ".", "p", "n", "g">>
hGif == <<".", "h", ".", "g", "i", "f">>
mainPy == <<"m", "a", "i", "n", ".", "p", "y">>
dBmp == <<"d", ".", "b", "m", "p">>

\* the order in which a directory listing returns names
NameOrder == <<aPng, bTxt, cPng, dBmp, hGif, mainPy>>
Names == {NameOrder[i] : i \in 1..Len(NameOrder)}

Top == "downloads"
Sub == "downloads/sub"
Dirs == {Top, Sub}

NoFile == "absent"
Data == {"imgA", "imgB", "text"}

\* what the bytes of a file really are
Kind(d) == IF d \in {"imgA", "imgB"} THEN "image" ELSE "text"

\* os.path.getsize
getsize(d) == CASE d = "imgA" -> 3 [] d = "imgB" -> 4 [] OTHER -> 2

\* --------------------------------------------------------- remote folders
Urls == {"flat", "nested", "bad"}

\* what gdown.download_folder writes under the staging directory
FolderContents(u) ==
    CASE u = "flat" ->
           {[dir |-> Top, name |-> aPng, data |-> "imgA"],
            [dir |-> Top, name |-> bTxt, data |-> "text"],
            [dir |-> Top, name |-> cPng, data |-> "text"]}
      [] u = "nested" ->
           {[dir |-> Sub, name |-> aPng, data |-> "imgB"],
            [dir |-> Top, name |-> hGif, data |-> "imgA"],
            [dir |-> Top, name |-> mainPy, data |-> "text"],
            [dir |-> Top, name |-> dBmp, data |-> "imgB"]}
      [] OTHER -> {}

\* download_folder returns None for a url that is no public folder
download_folder_ok(u) == u \in {"flat", "nested"}

\* ------------------------------------------------------- string functions
UpperChars == <<"A","B","C","D","E","F","G","H","I","J","K","L","M",
                "N","O","P","Q","R","S","T","U","V","W","X","Y","Z">>
LowerChars == <<"a","b","c","d","e","f","g","h","i","j","k","l","m",
                "n","o","p","q","r","s","t","u","v","w","x","y","z">>

LowerChar(c) ==
    IF \E i \in 1..Len(UpperChars) : UpperChars[i] = c
    THEN LowerChars[CHOOSE i \in 1..Len(UpperChars) : UpperChars[i] = c]
    ELSE c

lower(s) == [i \in 1..Len(s) |-> LowerChar(s[i])]

endswith(s, suf) ==
    /\ Len(s) >= Len(suf)
    /\ SubSeq(s, Len(s) - Len(suf) + 1, Len(s)) = suf

startswith(s, pre) ==
    /\ Len(s) >= Len(pre)
    /\ SubSeq(s, 1, Len(pre)) = pre

valid_extensions == {<<".", "j", "p", "g">>, <<".", "p", "n", "g">>,
                     <<".", "g", "i", "f">>, <<".", "j", "p", "e", "g">>}

\* variant: the extension check left out
HasValidExtensionAny(file) == TRUE

\* not the skip of line 66
HasValidExtension(file) == \E e \in valid_extensions : endswith(lower(file), e)

Whitespace == {" ", "\t", "\n", "\r"}

\* the skip condition of line 71
InvalidFilename(file) ==
    \/ startswith(file, <<".">>)
    \/ file \in {mainPy, <<"m", "a", "i", "n", ".">>, <<>>}
    \/ \A i \in 1..Len(file) : file[i] \in Whitespace

\* posixpath.splitext: the suffix from the last dot, none when the only dots lead
LastDot(s) == IF \E i \in 1..Len(s) : s[i] = "."
              THEN CHOOSE i \in 1..Len(s) : s[i] = "." /\ \A j \in (i+1)..Len(s) : s[j] # "."
              ELSE 0

splitext(s) ==
    IF LastDot(s) = 0 \/ \A j \in 1..LastDot(s) : s[j] = "."
    THEN <<>>
    ELSE SubSeq(s, LastDot(s), Len(s))

NoMime == <<"none", "none">>

\* mimetypes.guess_type: decided by the extension of the path alone
guess_type(file) ==
    LET e == lower(splitext(file)) IN
    CASE e = <<".", "p", "n", "g">> -> <<"image", "png">>
      [] e = <<".", "j", "p", "g">> -> <<"image", "jpeg">>
      [] e = <<".", "j", "p", "e", "g">> -> <<"image", "jpeg">>
      [] e = <<".", "g", "i", "f">> -> <<"image", "gif">>
      [] e = <<".", "b", "m", "p">> -> <<"image", "bmp">>
      [] e = <<".", "t", "x", "t">> -> <<"text", "plain">>
      [] e = <<".", "p", "y">> -> <<"text", "x-python">>
      [] OTHER -> NoMime

\* not the skip of line 85
IsImageMime(m) == m # NoMime /\ m[1] = "image"

dest_path(file) == <<"storage", file>>


\* ------------------------------------------------------------------ state
VARIABLES
    storage,        \* the storage directory: name -> data of the file, or NoFile
    staging,        \* the staging directory: <<dir, name>> -> data, or NoFile
    stagingDirs,    \* the directories that exist under (and including) downloads
    images,         \* the committed rows of the images table
    nextId,         \* source of fresh ids
    pc,             \* position of each import handler
    url,            \* req.url of each import handler
    dirsTodo,       \* os.walk: directories still to be listed
    files,          \* os.walk: files of the current directory still to be looped over
    cur,            \* the file in hand: root, file, file_size, mime_type, image_id
    imported_count, \* imported_count of each import handler
    resp,           \* the response of each import handler
    qresp,          \* the response of the last list / get-by-id request
    started,        \* number of import requests started
    queries,        \* number of list / get-by-id requests made
    faults,         \* number of failures injected
    storageBefore,  \* history: the storage directory when the request started
    imagesBefore,   \* history: rows when the request started
    listed,         \* history: the files os.walk has yielded to the request
    visited,        \* history: the files the loop body has been entered for
    failed,         \* history: the files whose processing raised
    raced,          \* history: names that passed the collision check in two handlers at once
    overwrote       \* history: names moved onto an existing destination

vars == <<storage, staging, stagingDirs, images, nextId, pc, url, dirsTodo, files,
          cur, imported_count, resp, qresp, started, queries, faults,
          storageBefore, imagesBefore, listed, visited, failed, raced, overwrote>>

fsVars == <<storage, staging, stagingDirs>>
walkVars == <<dirsTodo, listed>>
histVars == <<storageBefore, imagesBefore, url>>
clientVars == <<qresp, started, queries>>

Paths == Dirs \X Names
NoCur == [root |-> "", file |-> <<>>, file_size |-> 0, mime_type |-> NoMime, image_id |-> 0]
NoResp == [status |-> 0, detail |-> "", count |-> 0]

StoredNames == {n \in Names : storage[n] # NoFile}
Quiet == \A w \in Workers : pc[w] \in {"idle", "done"}
CanFail == faults < MaxFaults

Init ==
    /\ storage = [n \in Names |-> NoFile]
    /\ staging = [p \in Paths |-> NoFile]
    /\ stagingDirs = {}
    /\ images = {}
    /\ nextId = 1
    /\ pc = [w \in Workers |-> "idle"]
    /\ url = [w \in Workers |-> "bad"]
    /\ dirsTodo = [w \in Workers |-> <<>>]
    /\ files = [w \in Workers |-> <<>>]
    /\ cur = [w \in Workers |-> NoCur]
    /\ imported_count = [w \in Workers |-> 0]
    /\ resp = [w \in Workers |-> NoResp]
    /\ qresp = [op |-> "none", status |-> 0, detail |-> "", id |-> 0, body |-> {}]
    /\ started = 0
    /\ queries = 0
    /\ faults = 0
    /\ storageBefore = [w \in Workers |-> [n \in Names |-> NoFile]]
    /\ imagesBefore = [w \in Workers |-> {}]
    /\ listed = [w \in Workers |-> {}]
    /\ visited = [w \in Workers |-> {}]
    /\ failed = [w \in Workers |-> {}]
    /\ raced = {}
    /\ overwrote = {}

\* ------------------------------------------------------------ POST /import

\* get_db_connection: mysql.connector.Error becomes HTTPException(500), raised
\* before the handler's try block is entered
ConnectFailed == [status |-> 500, detail |-> "MySQL connection failed", count |-> 0]

\* the handler's outer "except Exception": whatever was raised inside the try
\* block, an HTTPException included, is answered with status 500 and str(e)
ImportExcept(e) == [status |-> 500, detail |-> e, count |-> 0]

\* lines 51-55: connect, enter the try block; the request is taken by the first
\* handler slot that is free
StartImport(w, u) ==
    /\ pc[w] \in {"idle", "done"}
    /\ \A v \in Workers : v < w => pc[v] \notin {"idle", "done"}
    /\ started < MaxImports
    /\ started' = started + 1
    /\ url' = [url EXCEPT ![w] = u]
    /\ dirsTodo' = [dirsTodo EXCEPT ![w] = <<>>]
    /\ files' = [files EXCEPT ![w] = <<>>]
    /\ cur' = [cur EXCEPT ![w] = NoCur]
    /\ imported_count' = [imported_count EXCEPT ![w] = 0]
    /\ storageBefore' = [storageBefore EXCEPT ![w] = storage]
    /\ imagesBefore' = [imagesBefore EXCEPT ![w] = images]
    /\ listed' = [listed EXCEPT ![w] = {}]
    /\ visited' = [visited EXCEPT ![w] = {}]
    /\ failed' = [failed EXCEPT ![w] = {}]
    /\ \/ /\ pc' = [pc EXCEPT ![w] = "fetch"]
          /\ resp' = [resp EXCEPT ![w] = NoResp]
          /\ UNCHANGED faults
       \/ /\ CanFail
          /\ faults' = faults + 1
          /\ pc' = [pc EXCEPT ![w] = "done"]
          /\ resp' = [resp EXCEPT ![w] = ConnectFailed]
    /\ UNCHANGED <<fsVars, images, nextId, qresp, queries, raced, overwrote>>

\* lines 56-63: gdown.download_folder into "downloads"; None raises the 400
\* inside the try block, which lines 108-110 catch
Fetch(w) ==
    /\ pc[w] = "fetch"
    /\ IF download_folder_ok(url[w])
       THEN /\ staging' = [p \in Paths |->
                  IF \E f \in FolderContents(url[w]) : <<f.dir, f.name>> = p
                  THEN (CHOOSE f \in FolderContents(url[w]) : <<f.dir, f.name>> = p).data
                  ELSE staging[p]]
            /\ stagingDirs' = stagingDirs \cup {Top} \cup {f.dir : f \in FolderContents(url[w])}
            /\ dirsTodo' = [dirsTodo EXCEPT ![w] = <<Top>>]
            /\ pc' = [pc EXCEPT ![w] = "walk"]
            /\ UNCHANGED resp
       ELSE /\ resp' = [resp EXCEPT ![w] =
                  ImportExcept("400: Invalid public Google Drive folder URL")]
            /\ pc' = [pc EXCEPT ![w] = "done"]
            /\ UNCHANGED <<staging, stagingDirs, dirsTodo>>
    /\ UNCHANGED <<storage, images, nextId, files, cur, imported_count, clientVars,
                   faults, histVars, listed, visited, failed, raced, overwrote>>

\* the files of directory d, in listing order
Listing(d) ==
    LET present == SelectSeq(NameOrder, LAMBDA n : staging[<<d, n>>] # NoFile)
    IN [i \in 1..Len(present) |-> [root |-> d, file |-> present[i]]]

\* the sub-directories of d
SubDirs(d) == IF d = Top /\ Sub \in stagingDirs THEN <<Sub>> ELSE <<>>

SeqToSet(s) == {s[i] : i \in 1..Len(s)}

\* line 64: os.walk lists the next directory when the loop reaches it; a
\* directory that is gone is passed over; after the last one comes line 104
Walk(w) ==
    /\ pc[w] = "walk"
    /\ IF dirsTodo[w] = <<>>
       THEN /\ pc' = [pc EXCEPT ![w] = "cleanup"]
            /\ UNCHANGED <<dirsTodo, files, listed>>
       ELSE LET d == Head(dirsTodo[w]) IN
            IF d \in stagingDirs
            THEN /\ files' = [files EXCEPT ![w] = Listing(d)]
                 /\ listed' = [listed EXCEPT ![w] = @ \cup SeqToSet(Listing(d))]
                 /\ dirsTodo' = [dirsTodo EXCEPT ![w] = SubDirs(d) \o Tail(@)]
                 /\ pc' = [pc EXCEPT ![w] = "loop"]
            ELSE /\ dirsTodo' = [dirsTodo EXCEPT ![w] = Tail(@)]
                 /\ UNCHANGED <<pc, files, listed>>
    /\ UNCHANGED <<fsVars, images, nextId, cur, imported_count, resp, clientVars,
                   faults, histVars, visited, failed, raced, overwrote>>

\* variant: the collision check left out
os_path_exists_never(file) == FALSE

\* line 78: os.path.exists(dest_path)
os_path_exists(file) == storage[file] # NoFile

\* lines 65-80: the three skips that come before the inner try block
CheckFile(w) ==
    /\ pc[w] = "loop"
    /\ IF files[w] = <<>>
       THEN /\ pc' = [pc EXCEPT ![w] = "walk"]
            /\ UNCHANGED <<files, cur, visited, raced>>
       ELSE LET f == Head(files[w]) IN
            /\ visited' = [visited EXCEPT ![w] = @ \cup {f}]
            /\ IF \/ ~HasValidExtension(f.file)
                  \/ InvalidFilename(f.file)
                  \/ os_path_exists(f.file)
               THEN /\ files' = [files EXCEPT ![w] = Tail(@)]
                    /\ UNCHANGED <<pc, cur, raced>>
               ELSE /\ cur' = [cur EXCEPT ![w] = [NoCur EXCEPT !.root = f.root, !.file = f.file]]
                    /\ pc' = [pc EXCEPT ![w] = "getsize"]
                    /\ raced' = IF \E v \in Workers \ {w} :
                                      /\ pc[v] \in {"getsize", "move"}
                                      /\ cur[v].file = f.file
                                THEN raced \cup {f.file} ELSE raced
                    /\ UNCHANGED files
    /\ UNCHANGED <<fsVars, images, nextId, imported_count, resp, clientVars, faults,
                   histVars, walkVars, failed, overwrote>>

\* variant: a per-file error reaches the outer except and ends the request
FileExceptAbort(w) ==
    /\ pc' = [pc EXCEPT ![w] = "done"]
    /\ resp' = [resp EXCEPT ![w] = ImportExcept("Error processing file")]
    /\ failed' = [failed EXCEPT ![w] = @ \cup {Head(files[w])}]
    /\ cur' = [cur EXCEPT ![w] = NoCur]
    /\ UNCHANGED files

\* lines 100-102: the inner "except Exception": log, go on with the next file
\* (the locals of the iteration are dead from here on)
FileExcept(w) ==
    /\ pc' = [pc EXCEPT ![w] = "loop"]
    /\ files' = [files EXCEPT ![w] = Tail(@)]
    /\ failed' = [failed EXCEPT ![w] = @ \cup {Head(files[w])}]
    /\ cur' = [cur EXCEPT ![w] = NoCur]
    /\ UNCHANGED resp

\* variant: the id of the previous file is handed out again
uuid4_reused == IF nextId > 1 THEN nextId - 1 ELSE nextId

\* line 90: uuid.uuid4()
uuid4 == nextId

\* lines 83-90: size, MIME type by file name, fresh id
GetSize(w) ==
    /\ pc[w] = "getsize"
    /\ LET src == <<cur[w].root, cur[w].file>> IN
       \/ /\ staging[src] = NoFile
          /\ FileExcept(w)
          /\ UNCHANGED <<nextId, faults>>
       \/ /\ staging[src] # NoFile
          /\ CanFail
          /\ faults' = faults + 1
          /\ FileExcept(w)
          /\ UNCHANGED nextId
       \/ /\ staging[src] # NoFile
          /\ IF IsImageMime(guess_type(cur[w].file))
             THEN /\ cur' = [cur EXCEPT ![w] = [@ EXCEPT
                                 !.file_size = getsize(staging[src]),
                                 !.mime_type = guess_type(cur[w].file),
                                 !.image_id = uuid4]]
                  /\ nextId' = nextId + 1
                  /\ pc' = [pc EXCEPT ![w] = "move"]
                  /\ UNCHANGED files
             ELSE /\ files' = [files EXCEPT ![w] = Tail(@)]
                  /\ pc' = [pc EXCEPT ![w] = "loop"]
                  /\ cur' = [cur EXCEPT ![w] = NoCur]
                  /\ UNCHANGED nextId
          /\ UNCHANGED <<resp, failed, faults>>
    /\ UNCHANGED <<fsVars, images, imported_count, clientVars, histVars, walkVars,
                   visited, raced, overwrote>>

\* variant: the source is removed without the destination being written
MoveLosesFile(w) ==
    /\ pc[w] = "move"
    /\ LET src == <<cur[w].root, cur[w].file>> IN
       /\ staging[src] # NoFile
       /\ staging' = [staging EXCEPT ![src] = NoFile]
       /\ pc' = [pc EXCEPT ![w] = "insert"]
       /\ UNCHANGED <<storage, overwrote, files, resp, failed, faults, cur>>
    /\ UNCHANGED <<stagingDirs, images, nextId, imported_count, clientVars,
                   histVars, walkVars, visited, raced>>

\* line 91: shutil.move(src_path, dest_path); a destination file that exists is replaced
Move(w) ==
    /\ pc[w] = "move"
    /\ LET src == <<cur[w].root, cur[w].file>> IN
       \/ /\ staging[src] = NoFile
          /\ FileExcept(w)
          /\ UNCHANGED <<storage, staging, overwrote, faults>>
       \/ /\ staging[src] # NoFile
          /\ CanFail
          /\ faults' = faults + 1
          /\ FileExcept(w)
          /\ UNCHANGED <<storage, staging, overwrote>>
       \/ /\ staging[src] # NoFile
          /\ storage' = [storage EXCEPT ![cur[w].file] = staging[src]]
          /\ staging' = [staging EXCEPT ![src] = NoFile]
          /\ overwrote' = IF storage[cur[w].file] # NoFile
                          THEN overwrote \cup {cur[w].file} ELSE overwrote
          /\ pc' = [pc EXCEPT ![w] = "insert"]
          /\ UNCHANGED <<files, resp, failed, faults, cur>>
    /\ UNCHANGED <<stagingDirs, images, nextId, imported_count, clientVars,
                   histVars, walkVars, visited, raced>>

\* the row of lines 93-96
Row(w) == [id |-> cur[w].image_id,
           name |-> cur[w].file,
           google_drive_id |-> cur[w].file,
           size |-> cur[w].file_size,
           mime_type |-> cur[w].mime_type,
           storage_path |-> dest_path(cur[w].file)]

\* lines 93-99: INSERT, commit, count; a failure of either leaves no row
Insert(w) ==
    /\ pc[w] = "insert"
    /\ \/ /\ CanFail
          /\ faults' = faults + 1
          /\ FileExcept(w)
          /\ UNCHANGED <<images, imported_count>>
       \/ /\ images' = images \cup {Row(w)}
          /\ imported_count' = [imported_count EXCEPT ![w] = @ + 1]
          /\ files' = [files EXCEPT ![w] = Tail(@)]
          /\ pc' = [pc EXCEPT ![w] = "loop"]
          /\ cur' = [cur EXCEPT ![w] = NoCur]
          /\ UNCHANGED <<resp, failed, faults>>
    /\ UNCHANGED <<fsVars, nextId, clientVars, histVars, walkVars, visited,
                   raced, overwrote>>

\* lines 104-106: shutil.rmtree(temp_dir, ignore_errors=True) and the answer
Cleanup(w) ==
    /\ pc[w] = "cleanup"
    /\ staging' = [p \in Paths |-> NoFile]
    /\ stagingDirs' = {}
    /\ resp' = [resp EXCEPT ![w] = [status |-> 200,
                                    detail |-> "Imported N images successfully",
                                    count |-> imported_count[w]]]
    /\ pc' = [pc EXCEPT ![w] = "done"]
    /\ UNCHANGED <<storage, images, nextId, url, dirsTodo, files, cur, imported_count,
                   clientVars, faults, histVars, listed, visited, failed, raced, overwrote>>

\* ------------------------------------------------------------- GET /images
\* lines 116-130
ListImages ==
    /\ queries < MaxQueries
    /\ queries' = queries + 1
    /\ \/ /\ qresp' = [op |-> "list", status |-> 200, detail |-> "", id |-> 0, body |-> images]
          /\ UNCHANGED faults
       \/ /\ CanFail
          /\ faults' = faults + 1
          /\ qresp' = [op |-> "list", status |-> ConnectFailed.status,
                       detail |-> ConnectFailed.detail, id |-> 0, body |-> {}]
    /\ UNCHANGED <<fsVars, images, nextId, pc, url, dirsTodo, files, cur, imported_count,
                   resp, started, histVars, listed, visited, failed, raced, overwrote>>

\* --------------------------------------------------------- GET /image/{id}
\* the handler's "except Exception" (lines 145-147): the 404 raised at line 144
\* inside the try block is caught here and answered with status 500
GetExcept(e) == 500

\* lines 133-150
GetImage(image_id) ==
    /\ queries < MaxQueries
    /\ queries' = queries + 1
    /\ \/ /\ \E row \in images : row.id = image_id
          /\ qresp' = [op |-> "get", status |-> 200, detail |-> "", id |-> image_id,
                       body |-> {row \in images : row.id = image_id}]
          /\ UNCHANGED faults
       \/ /\ ~\E row \in images : row.id = image_id
          /\ qresp' = [op |-> "get", status |-> GetExcept("404: Image not found"),
                       detail |-> "Error serving image: 404: Image not found",
                       id |-> image_id, body |-> {}]
          /\ UNCHANGED faults
       \/ /\ CanFail
          /\ faults' = faults + 1
          /\ qresp' = [op |-> "get", status |-> ConnectFailed.status,
                       detail |-> ConnectFailed.detail, id |-> image_id, body |-> {}]
    /\ UNCHANGED <<fsVars, images, nextId, pc, url, dirsTodo, files, cur, imported_count,
                   resp, started, histVars, listed, visited, failed, raced, overwrote>>

\* ids a client may ask for: every id issued so far, and two never issued
AskableIds == 0..nextId

\* ---------------------------------------------------------- specifications
Step(w) ==
    \/ Fetch(w)
    \/ Walk(w)
    \/ CheckFile(w)
    \/ GetSize(w)
    \/ Move(w)
    \/ Insert(w)
    \/ Cleanup(w)

\* requests run one at a time: a request arrives only when no handler is running
ImportArrives(w, u) == Quiet /\ StartImport(w, u)
ListArrives == Quiet /\ ListImages
GetArrives(image_id) == Quiet /\ GetImage(image_id)

Next ==
    \/ \E w \in Workers, u \in Urls : ImportArrives(w, u)
    \/ ListArrives
    \/ \E i \in AskableIds : GetArrives(i)
    \/ \E w \in Workers : Step(w)

Spec == Init /\ [][Next]_vars

\* two import requests overlap: each handler slot takes one request, and the
\* steps of the two handlers interleave
ImportOverlaps(w, u) == pc[w] = "idle" /\ StartImport(w, u)

NextConc ==
    \/ \E w \in Workers, u \in Urls : ImportOverlaps(w, u)
    \/ \E w \in Workers : Step(w)

SpecConc == Init /\ [][NextConc]_vars

\* ------------------------------------------------------------------ claims
RowNames(rows) == {r.name : r \in rows}
NewRows(w) == images \ imagesBefore[w]
NewFiles(w) == {n \in Names : storage[n] # NoFile /\ storageBefore[w][n] = NoFile}
Answered(w) == pc[w] = "done" /\ resp[w].status = 200
FetchFailed(w) == pc[w] = "done" /\ resp[w] # ConnectFailed /\ ~download_folder_ok(url[w])
File(d, n) == [root |-> d, file |-> n]

\* C1: when an import whose folder fetch succeeded has answered, the count it
\* reports equals the number of rows it added and equals the number of files
\* that are in storage now and were not there when it started, whatever
\* happened to the single files (a failed move or a failed insert included).
CountEqualsNewRowsAndNewFiles ==
    \A w \in Workers :
        Answered(w) =>
            /\ resp[w].count = Cardinality(NewRows(w))
            /\ resp[w].count = Cardinality(NewFiles(w))

\* C2: a file with an allowed extension whose content is not an image is never
\* in storage and never has a row; importing the folder of a.png (image),
\* b.txt and c.png (text content) into an empty store without any failure
\* leaves exactly one row, for a.png.
NonImageContentNeverAccepted ==
    /\ \A n \in Names : storage[n] # NoFile => Kind(storage[n]) = "image"
    /\ \A w \in Workers :
        (/\ Answered(w)
         /\ url[w] = "flat"
         /\ imagesBefore[w] = {}
         /\ NewFiles(w) = StoredNames
         /\ failed[w] = {}) => RowNames(images) = {aPng} /\ Cardinality(images) = 1

\* C3: an import whose folder fetch returned no result ends with status 400,
\* and has moved no file and inserted no row.
InvalidFolderIsClientError ==
    \A w \in Workers :
        FetchFailed(w) =>
            /\ resp[w].status = 400
            /\ NewRows(w) = {}
            /\ NewFiles(w) = {}

\* C4: a get-by-id request for an id that no row has, on a store that was
\* reachable, is answered with status 404.
UnknownIdIsNotFound ==
    (/\ qresp.op = "get"
     /\ qresp.detail # ConnectFailed.detail
     /\ ~\E row \in images : row.id = qresp.id) => qresp.status = 404

\* C5: an import that runs after another moves no file and inserts no row for
\* a name that was in storage when it started, counts none of those names,
\* and leaves the files and rows it found as they were.
ReimportSkipsStoredNames ==
    \A w \in Workers :
        pc[w] # "idle" =>
            /\ \A r \in NewRows(w) : storageBefore[w][r.name] = NoFile
            /\ \A n \in Names :
                   storageBefore[w][n] # NoFile => storage[n] = storageBefore[w][n]
            /\ overwrote = {}
            /\ imagesBefore[w] \subseteq images
            /\ Answered(w) =>
                   resp[w].count <= Cardinality({f.name : f \in FolderContents(url[w])}
                                                \ {n \in Names : storageBefore[w][n] # NoFile})

\* C5 witness: the folder of a.png and c.png has been imported a second time,
\* with both names in storage from the first time, and the count is 0.
ReimportWitness ==
    \E w \in Workers :
        /\ Answered(w)
        /\ url[w] = "flat"
        /\ storageBefore[w][aPng] = "imgA"
        /\ storageBefore[w][cPng] = "text"
        /\ File(Top, aPng) \in visited[w]
        /\ File(Top, cPng) \in visited[w]
        /\ resp[w].count = 0
        /\ Cardinality(images) = 2

\* C6: once the store is connected, an import fails exactly when its folder
\* fetch fails; an import that answers has entered the loop body for every
\* file the walk yielded, whatever raised on the way, and every row committed
\* on the way is in the table and counted.
PerFileFailureIsSoftSkip ==
    \A w \in Workers :
        /\ (pc[w] = "done" /\ resp[w] # ConnectFailed) =>
               (resp[w].status = 200 <=> download_folder_ok(url[w]))
        /\ (pc[w] \notin {"idle", "fetch"} /\ failed[w] # {}) =>
               pc[w] # "done" \/ resp[w].status = 200
        /\ Answered(w) =>
               /\ visited[w] = listed[w]
               /\ resp[w].count = Cardinality(NewRows(w))
               /\ \A r \in NewRows(w) : storage[r.name] # NoFile

\* C6 witness: processing a.png raised, c.png, which comes after it, was
\* imported, and the import answered with a count of 1.
SoftSkipWitness ==
    \E w \in Workers :
        /\ Answered(w)
        /\ failed[w] = {File(Top, aPng)}
        /\ RowNames(NewRows(w)) = {cPng}
        /\ resp[w].count = 1

\* the names the specification bars from storage
Disallowed(n) ==
    \/ ~\E e \in {<<".", "j", "p", "g">>, <<".", "j", "p", "e", "g">>,
                  <<".", "p", "n", "g">>, <<".", "g", "i", "f">>} :
           endswith(lower(n), e)
    \/ n # <<>> /\ n[1] = "."
    \/ n \in {mainPy, <<"m", "a", "i", "n", ".">>, <<>>}

\* C7: a name without an allowed extension, a hidden name or a disallowed
\* literal name is never in storage and never has a row.
DisallowedNamesNeverStored ==
    \A n \in Names :
        Disallowed(n) => storage[n] = NoFile /\ n \notin RowNames(images)

\* C7 witness: the loop has been through d.bmp, the hidden .h.gif and main.py
\* of one folder, after b.txt of an earlier one, and has answered.
DisallowedWitness ==
    \E w \in Workers :
        /\ Answered(w)
        /\ {File(Top, dBmp), File(Top, hGif), File(Top, mainPy)} \subseteq visited[w]
        /\ storage[cPng] # NoFile
        /\ Disallowed(dBmp) /\ Disallowed(hGif) /\ Disallowed(mainPy) /\ Disallowed(bTxt)

\* C8: with requests one at a time, no two rows share a name or an id, no step
\* changes or removes a row, and a list or get-by-id request changes neither
\* the table nor the storage directory.
RowsUniqueAndImmutable ==
    /\ [](\A r1, r2 \in images : (r1.name = r2.name \/ r1.id = r2.id) => r1 = r2)
    /\ [][/\ images \subseteq images'
          /\ queries' # queries => images' = images /\ storage' = storage]_vars

\* C8 witness: imports of both folders have left a row for a.png (from the
\* sub-folder) and one for c.png, and a query made after them has been answered.
QueriedRowsWitness ==
    /\ RowNames(images) = {aPng, cPng}
    /\ storage[aPng] = "imgB"
    /\ started >= 2
    /\ Quiet
    /\ qresp.op \in {"list", "get"}
    /\ qresp.status = 200

\* C9: every row's storage_path names a file that is in the storage directory.
RowsPointToStoredFiles ==
    \A r \in images :
        /\ r.storage_path = dest_path(r.name)
        /\ storage[r.storage_path[2]] # NoFile

\* C9 witness: after a failure in some import, a later import has added a row
\* to the rows it found, and the files of all rows are in storage.
RowsWithFilesWitness ==
    \E w \in Workers :
        /\ Answered(w)
        /\ faults > 0
        /\ NewRows(w) # {}
        /\ imagesBefore[w] # {}
        /\ \A r \in images : storage[r.name] # NoFile

DupNames == {n \in Names : \E r1, r2 \in images : r1.name = n /\ r2.name = n /\ r1 # r2}

\* C10: with two overlapping imports, a file is moved onto an existing
\* destination, or a name gets two rows, only after both handlers passed the
\* collision check for that name before either had moved its file.
OverwriteOnlyAfterDoubleCheck == (overwrote \cup DupNames) \subseteq raced

\* C10 witness: both handlers passed the collision check for a.png before
\* either moved it, the later move replaced the stored file, and a.png has
\* two rows.
RaceWitness ==
    /\ aPng \in raced
    /\ aPng \in overwrote
    /\ aPng \in DupNames
    /\ \A w \in Workers : Answered(w) /\ failed[w] = {}
====
